---- MODULE Spec2Model ----
(***************************************************************************)
(* Nebulae: the planner of src/agents/planner_agent.py over the agent      *)
(* contract of src/agents/base_agent.py, and the agents of                 *)
(* src/agents/summarizer_agent.py and src/agents/research_agent.py.        *)
(*                                                                         *)
(* SelectSpec applies PlannerAgent.select_agent_for_task to one task and   *)
(* one registry drawn from bounded sets.  Spec runs                        *)
(* PlannerAgent.plan_and_execute over a task sequence, one step per        *)
(* selection and one per agent invocation.  AgentSpec hands one task to    *)
(* execute_task of a SummarizerAgent or a ResearchAgent, and the documents *)
(* a ResearchAgent returned to a SummarizerAgent.  ConstructorSpec runs    *)
(* BaseAgent.__init__ over keyword arguments and a configuration.          *)
(***************************************************************************)
EXTENDS Integers, Sequences, FiniteSets, TLC

VARIABLES
    registry,        \* PlannerAgent.registry: the list of registered agents
                     \* (ConstructorSpec: the agent __init__ has built)
    tasks,           \* the task list plan_and_execute iterates over
                     \* (AgentSpec: the task dicts handed to the agents)
    jsonschema_ok,   \* whether "import jsonschema" succeeds in this process
    pc,              \* position of the running call
    idx,             \* 1-based position of the for loop in tasks
    agent,           \* index in registry of the selected agent, None when none
    results,         \* the local dict results of plan_and_execute
                     \* (AgentSpec: what each execute_task returned, by task id)
    calls,           \* every execute_task invocation so far: <<task_id, agent index>>
                     \* (AgentSpec: with the argument passed and the outcome;
                     \*  ConstructorSpec: the arguments of the __init__ call)
    error            \* the exception that left the call, if any

vars == <<registry, tasks, jsonschema_ok, pc, idx, agent, results, calls, error>>

(***************************************************************************)
(* Bounds of the model.                                                    *)
(***************************************************************************)
MaxAgents == 2
MaxTasks == 2

(***************************************************************************)
(* JSON values.  A dict is a function from the keys it holds to the JSON   *)
(* type of each value; a value that is no dict has no fields.              *)
(***************************************************************************)
EmptyDict == <<>>

Obj(fields) == [jtype |-> "object", fields |-> fields]

JsonNull == [jtype |-> "null", fields |-> EmptyDict]

\* the marker of a task dict that holds no "payload" key
MissingKey == [jtype |-> "missing", fields |-> EmptyDict]

(***************************************************************************)
(* JSON schemas as the agent configurations declare them.                  *)
(*   kind "none"   : the config holds no schema (None)                     *)
(*   kind "empty"  : the config holds the empty dict {}                    *)
(*   kind "schema" : {"type": "object", "required": [...],                 *)
(*                    "properties": {k: {"type": ...}}}                    *)
(***************************************************************************)
NoSchema == [kind |-> "none", required |-> {}, properties |-> EmptyDict]

EmptySchema == [kind |-> "empty", required |-> {}, properties |-> EmptyDict]

ObjectSchema(required, properties) ==
    [kind |-> "schema", required |-> required, properties |-> properties]

\* input_schema of agent_config_template: accepts every object
TemplateSchema == ObjectSchema({}, EmptyDict)

\* input_schema of the summarizer configuration of the tests
SummarizerInputSchema == ObjectSchema({"documents"}, [k \in {"documents"} |-> "array"])

\* output_schema of the summarizer configuration of the tests
SummarizerOutputSchema == ObjectSchema({"summary"}, [k \in {"summary"} |-> "string"])

\* Python truthiness of a schema attribute: None and {} are falsy
Truthy(schema) == schema.kind = "schema"

\* jsonschema.validate(instance, schema) returns without raising
jsonschema_validate(instance, schema) ==
    /\ instance.jtype = "object"
    /\ \A k \in schema.required : k \in DOMAIN instance.fields
    /\ \A k \in (DOMAIN schema.properties) \cap (DOMAIN instance.fields) :
          instance.fields[k] = schema.properties[k]

(***************************************************************************)
(* BaseAgent                                                               *)
(***************************************************************************)
\* task.get("task_type") of a task that holds none, or holds "": falsy
NoTaskType == ""

can_handle(a, task) ==
    /\ task.task_type # NoTaskType
    /\ task.task_type \in a.capabilities

validate_input_NoShortCircuit(a, payload) ==
    /\ jsonschema_ok
    /\ Truthy(a.input_schema)
    /\ jsonschema_validate(payload, a.input_schema)

validate_input(a, payload) ==
    IF ~Truthy(a.input_schema)
    THEN TRUE
    ELSE \* the import and the validation sit in one try: any exception is False
         jsonschema_ok /\ jsonschema_validate(payload, a.input_schema)

(***************************************************************************)
(* PlannerAgent                                                            *)
(***************************************************************************)
None == 0

\* task.get("payload", {})
task_payload(task) ==
    IF task.payload.jtype = "missing" THEN Obj(EmptyDict) ELSE task.payload

Indices(reg) == [i \in 1..Len(reg) |-> i]

Candidates(reg, task) ==
    LET Capable(i) == can_handle(reg[i], task)
    IN  SelectSeq(Indices(reg), Capable)

ValidCandidates(reg, task) ==
    LET Accepts(i) == validate_input(reg[i], task_payload(task))
    IN  SelectSeq(Candidates(reg, task), Accepts)

select_agent_for_task_NoValidation(reg, task) ==
    IF Candidates(reg, task) = <<>> THEN None ELSE Candidates(reg, task)[1]

select_agent_for_task_LastValid(reg, task) ==
    IF ValidCandidates(reg, task) = <<>>
    THEN None
    ELSE ValidCandidates(reg, task)[Len(ValidCandidates(reg, task))]

select_agent_for_task(reg, task) ==
    IF Candidates(reg, task) = <<>>
    THEN None
    ELSE IF ValidCandidates(reg, task) = <<>>
         THEN None
         ELSE ValidCandidates(reg, task)[1]

(***************************************************************************)
(* Inputs: agent configurations, registries and task sequences.            *)
(***************************************************************************)
TaskTypes == {"summarize_text", "retrieve_documents"}

Agent(capabilities, input_schema, output_schema, priority, max_retries) ==
    [capabilities |-> capabilities, input_schema |-> input_schema,
     output_schema |-> output_schema, priority |-> priority,
     max_retries |-> max_retries]

Registries(agents) == UNION {[1..n -> agents] : n \in 0..MaxAgents}

\* agents of the selection check: every input schema shape, two priorities
SelectAgents ==
    {Agent(c, s, NoSchema, p, 2) :
        c \in {{"summarize_text"}, {"summarize_text", "retrieve_documents"}},
        s \in {NoSchema, EmptySchema, TemplateSchema, SummarizerInputSchema},
        p \in {10, 50}}

Payloads ==
    {MissingKey, Obj(EmptyDict),
     Obj([k \in {"documents"} |-> "array"]),
     Obj([k \in {"documents"} |-> "string"])}

Task(task_id, task_type, payload, dependencies, priority) ==
    [task_id |-> task_id, task_type |-> task_type, payload |-> payload,
     dependencies |-> dependencies, priority |-> priority]

SelectTasks ==
    {Task("t1", ty, p, {}, 50) : ty \in TaskTypes \cup {NoTaskType}, p \in Payloads}

NoError == [kind |-> "none", task_id |-> ""]

(***************************************************************************)
(* SelectSpec: select_agent_for_task applied to one task and one registry. *)
(***************************************************************************)
SelectInit ==
    /\ registry \in Registries(SelectAgents)
    /\ tasks \in {<<t>> : t \in SelectTasks}
    /\ jsonschema_ok \in BOOLEAN
    /\ pc = "query"
    /\ idx = 1
    /\ agent = None
    /\ results = EmptyDict
    /\ calls = <<>>
    /\ error = NoError

SelectAgentForTask ==
    /\ pc = "query"
    /\ agent' = select_agent_for_task(registry, tasks[idx])
    /\ pc' = "answered"
    /\ UNCHANGED <<registry, tasks, jsonschema_ok, idx, results, calls, error>>

SelectNext == SelectAgentForTask

SelectSpec == SelectInit /\ [][SelectNext]_vars

(***************************************************************************)
(* Claims about select_agent_for_task, checked under SelectSpec.           *)
(***************************************************************************)
TheTask == tasks[1]

ThePayload == task_payload(TheTask)

\* agent i declares the task's task_type and its validate_input accepts the payload
Declares(i) == TheTask.task_type \in registry[i].capabilities

Accepts(i) == validate_input(registry[i], ThePayload)

Answered == pc = "answered"

\* C1: select_agent_for_task returns an agent iff some registered agent both
\* declares the task's task_type and accepts its payload; the agent returned
\* satisfies both, so a capable agent whose schema rejects the payload is skipped
\* and None is returned only when no candidate validates.
C1_SelectIffValidCandidate ==
    Answered =>
        /\ (agent # None) <=> (\E i \in 1..Len(registry) : Declares(i) /\ Accepts(i))
        /\ agent # None => agent \in 1..Len(registry) /\ Declares(agent) /\ Accepts(agent)

\* a capable agent whose schema rejects the payload was skipped for a later one
C1_Witness ==
    /\ Answered
    /\ agent = 2
    /\ Declares(1)
    /\ ~Accepts(1)

\* C2: an agent that declares no input schema accepts every payload, so it is a
\* valid candidate for every task whose task_type is in its capabilities: the
\* selection then returns an agent, that one or one registered before it.
C2_NoSchemaAcceptsAll ==
    Answered =>
        \A i \in 1..Len(registry) :
            registry[i].input_schema = NoSchema =>
                /\ \A p \in Payloads : validate_input(registry[i], task_payload([payload |-> p]))
                /\ Declares(i) => agent \in 1..i

\* a schema-less agent is selected for a payload a schema would reject, in a
\* process where no schema validation can run
C2_Witness ==
    /\ Answered
    /\ agent # None
    /\ registry[agent].input_schema = NoSchema
    /\ ~jsonschema_ok
    /\ ~jsonschema_validate(ThePayload, SummarizerInputSchema)

\* agent i comes before agent j in the order by declared priority (higher
\* first), ties broken by registration order
PriorityBefore(i, j) ==
    \/ registry[i].priority > registry[j].priority
    \/ registry[i].priority = registry[j].priority /\ i <= j

\* C10: the candidates are ordered by the agents' declared priority, ties broken
\* by registration order, and the agent selected is the first in that order.
C10_SelectedByPriority ==
    Answered /\ agent # None =>
        \A j \in 1..Len(registry) : Declares(j) /\ Accepts(j) => PriorityBefore(agent, j)

(***************************************************************************)
(* PlannerAgent.dispatch_task and plan_and_execute.                        *)
(***************************************************************************)
\* what agent.execute_task(task) does: it returns a value or it raises
\* a result that conforms to SummarizerOutputSchema, and the None that the
\* stub agents of the examples return
Outcomes ==
    {[kind |-> "return", value |-> Obj([k \in {"summary"} |-> "string"]), error |-> "none"],
     [kind |-> "return", value |-> JsonNull, error |-> "none"],
     [kind |-> "raise", value |-> JsonNull, error |-> "agent_error"]}

\* the output validation of dispatch_task raises
OutputRejected(a, value) ==
    /\ Truthy(a.output_schema)
    /\ ~(jsonschema_ok /\ jsonschema_validate(value, a.output_schema))

\* dispatch_task(agent, task), given what the agent's execute_task does
dispatch_task(a, outcome) ==
    IF outcome.kind = "raise"
    THEN outcome
    ELSE IF OutputRejected(a, outcome.value)
         THEN [kind |-> "raise", value |-> JsonNull, error |-> "output_validation"]
         ELSE outcome

TaskIds == <<"t1", "t2", "t3", "t4">>

\* the payload of the task decompose_goal builds
GoalPayload == Obj([k \in {"documents", "summary_length"} |->
                       IF k = "documents" THEN "array" ELSE "string"])

decompose_goal == <<Task("t1", "summarize_text", GoalPayload, {}, 50)>>

\* task sequences of the documented shape {task_id, task_type, payload,
\* dependencies, priority}, the one decompose_goal returns among them
TaskSequences ==
    UNION {
        {[k \in 1..n |-> Task(TaskIds[k], ty[k], GoalPayload, d[k] \ {TaskIds[k]}, pr[k])] :
            ty \in [1..n -> TaskTypes],
            d \in [1..n -> SUBSET {TaskIds[j] : j \in 1..n}],
            pr \in [1..n -> {10, 50}]}
        : n \in 1..MaxTasks}

\* agents of the execution check
PlanAgents ==
    {Agent({"summarize_text"}, NoSchema, so, 50, r) :
        so \in {NoSchema, SummarizerOutputSchema},
        r \in {0, 2}}

Init ==
    /\ registry \in Registries(PlanAgents)
    /\ tasks \in TaskSequences
    /\ jsonschema_ok \in BOOLEAN
    /\ pc = "start"
    /\ idx = 1
    /\ agent = None
    /\ results = EmptyDict
    /\ calls = <<>>
    /\ error = NoError

\* tasks = self.decompose_goal(goal); results = {}
PlanStart ==
    /\ pc = "start"
    /\ pc' = "loop"
    /\ idx' = 1
    /\ results' = EmptyDict
    /\ UNCHANGED <<registry, tasks, jsonschema_ok, agent, calls, error>>

\* agent = self.select_agent_for_task(task); if not agent: raise RuntimeError
SelectNone ==
    /\ pc = "loop"
    /\ idx <= Len(tasks)
    /\ select_agent_for_task(registry, tasks[idx]) = None
    /\ agent' = None
    /\ pc' = "raised"
    /\ error' = [kind |-> "no_agent", task_id |-> tasks[idx].task_id]
    /\ UNCHANGED <<registry, tasks, jsonschema_ok, idx, results, calls>>

SelectAgent ==
    /\ pc = "loop"
    /\ idx <= Len(tasks)
    /\ select_agent_for_task(registry, tasks[idx]) # None
    /\ agent' = select_agent_for_task(registry, tasks[idx])
    /\ pc' = "dispatch"
    /\ UNCHANGED <<registry, tasks, jsonschema_ok, idx, results, calls, error>>

\* the invocation agent.execute_task(task) that dispatch_task makes
Invocation == [task_id |-> tasks[idx].task_id, agent |-> agent, done |-> DOMAIN results]

\* the loop moves on without waiting for the invocation to finish
DispatchReturns_NoWait ==
    /\ pc = "dispatch"
    /\ idx' = idx + 1
    /\ pc' = "loop"
    /\ UNCHANGED <<registry, tasks, jsonschema_ok, agent, results, calls, error>>

\* res = self.dispatch_task(agent, task); results[task["task_id"]] = res
DispatchReturns ==
    /\ pc = "dispatch"
    /\ \E outcome \in Outcomes :
          /\ dispatch_task(registry[agent], outcome).kind = "return"
          /\ results' = (tasks[idx].task_id :> dispatch_task(registry[agent], outcome).value)
                            @@ results
    /\ calls' = Append(calls, Invocation)
    /\ idx' = idx + 1
    /\ pc' = "loop"
    /\ UNCHANGED <<registry, tasks, jsonschema_ok, agent, error>>

\* the failure is noted and the loop goes on to the next task
DispatchRaises_Continue ==
    /\ pc = "dispatch"
    /\ \E outcome \in Outcomes :
          /\ dispatch_task(registry[agent], outcome).kind = "raise"
          /\ error' = [kind |-> dispatch_task(registry[agent], outcome).error,
                       task_id |-> tasks[idx].task_id]
    /\ calls' = Append(calls, Invocation)
    /\ idx' = idx + 1
    /\ pc' = "loop"
    /\ UNCHANGED <<registry, tasks, jsonschema_ok, agent, results>>

\* dispatch_task raises: the exception leaves plan_and_execute
DispatchRaises ==
    /\ pc = "dispatch"
    /\ \E outcome \in Outcomes :
          /\ dispatch_task(registry[agent], outcome).kind = "raise"
          /\ error' = [kind |-> dispatch_task(registry[agent], outcome).error,
                       task_id |-> tasks[idx].task_id]
    /\ calls' = Append(calls, Invocation)
    /\ pc' = "raised"
    /\ UNCHANGED <<registry, tasks, jsonschema_ok, idx, agent, results>>

\* return results
PlanReturn ==
    /\ pc = "loop"
    /\ idx > Len(tasks)
    /\ pc' = "returned"
    /\ UNCHANGED <<registry, tasks, jsonschema_ok, idx, agent, results, calls, error>>

Next ==
    \/ PlanStart
    \/ SelectNone
    \/ SelectAgent
    \/ DispatchReturns
    \/ DispatchRaises
    \/ PlanReturn

Spec == Init /\ [][Next]_vars

(***************************************************************************)
(* Claims about plan_and_execute, checked under Spec.                      *)
(***************************************************************************)
Ended == pc \in {"returned", "raised"}

TaskAt(id) == CHOOSE k \in 1..Len(tasks) : tasks[k].task_id = id

\* the number of execute_task invocations made for a task
Attempts(id) == Cardinality({j \in 1..Len(calls) : calls[j].task_id = id})

\* the mapping plan_and_execute hands back holds a result for the task
InPlanResult(id) == pc = "returned" /\ id \in DOMAIN results

HasAgent(k) == select_agent_for_task(registry, tasks[k]) # None

\* a task failed: the error names it
SomeTaskFailed == error.kind # "none"

\* the claims about plan_and_execute are stated for a process in which
\* jsonschema is installed, where only a non-conforming value fails validation
Installed == jsonschema_ok

RECURSIVE Reach(_, _, _)
Reach(k, m, n) ==
    /\ n > 0
    /\ \/ tasks[m].task_id \in tasks[k].dependencies
       \/ \E c \in 1..Len(tasks) :
             tasks[c].task_id \in tasks[k].dependencies /\ Reach(c, m, n - 1)

\* task k depends on task m, directly or through other tasks
DependsOn(k, m) == Reach(k, m, Len(tasks))

\* task k is another task than the failed one, waits for nothing, does not
\* depend on the failed task and has an agent to run it
Unrelated(k) ==
    /\ k # TaskAt(error.task_id)
    /\ tasks[k].dependencies = {}
    /\ ~DependsOn(k, TaskAt(error.task_id))
    /\ HasAgent(k)

\* C3: a task with no capable registered agent fails with a no-capable-agent
\* error shown for that task in the plan result; it is not retried and no
\* execute_task is invoked for it.
C3_NoAgentShownInPlanResult ==
    Installed =>
        \A k \in 1..Len(tasks) :
            ~HasAgent(k) =>
                /\ Attempts(tasks[k].task_id) = 0
                /\ Ended => pc = "returned" /\ tasks[k].task_id \notin DOMAIN results

\* C4: no task's execute_task is invoked before all of its dependency tasks
\* have produced a successful result, whatever the order of the sequence.
C4_DispatchedAfterDependencies ==
    Installed =>
        \A j \in 1..Len(calls) :
            tasks[TaskAt(calls[j].task_id)].dependencies \subseteq calls[j].done

\* C5: a result that does not conform to the agent's output schema is never
\* returned by dispatch_task nor recorded as the task's result, and the failure
\* is a failure of that task, not the end of the plan's execution.
C5_OutputMismatchIsTaskFailure ==
    Installed =>
        /\ \A j \in 1..Len(calls) :
              (Truthy(registry[calls[j].agent].output_schema)
                  /\ calls[j].task_id \in DOMAIN results)
              => jsonschema_validate(results[calls[j].task_id],
                                     registry[calls[j].agent].output_schema)
        /\ error.kind = "output_validation" =>
              /\ error.task_id \notin DOMAIN results
              /\ pc # "raised"

\* C6: a per-task error is recorded in the plan result under the task's id and
\* does not abort the plan: a plan result is still produced, it keeps the
\* results of the tasks that succeeded, and the tasks that do not depend on the
\* failed task are still dispatched.
C6_TaskErrorDoesNotAbortPlan ==
    (Installed /\ Ended /\ SomeTaskFailed) =>
        /\ pc = "returned"
        /\ \A id \in DOMAIN results : InPlanResult(id)
        /\ \A k \in 1..Len(tasks) : Unrelated(k) => Attempts(tasks[k].task_id) >= 1

\* C7: when task X fails, every task that depends on X, directly or through
\* another task, is never dispatched, while a task with no dependency path from
\* X is dispatched and its result is in the plan result.
C7_FailureCancelsOnlyDependents ==
    (Installed /\ Ended /\ SomeTaskFailed) =>
        \A k \in 1..Len(tasks) :
            /\ DependsOn(k, TaskAt(error.task_id)) => Attempts(tasks[k].task_id) = 0
            /\ Unrelated(k) =>
                  /\ Attempts(tasks[k].task_id) >= 1
                  /\ tasks[k].task_id \in DOMAIN results => InPlanResult(tasks[k].task_id)

\* C8: a task whose only capable agent fails on every attempt is attempted
\* exactly max_retries + 1 times, max_retries from that agent's retry policy,
\* before the task becomes Failed.
C8_AttemptsMaxRetriesPlusOne ==
    (Installed /\ Ended /\ error.kind \in {"agent_error", "output_validation"}
           /\ Len(Candidates(registry, tasks[TaskAt(error.task_id)])) = 1) =>
        Attempts(error.task_id) = registry[agent].max_retries + 1

\* task m is ready when invocation j is made: all its dependencies have
\* succeeded, it has not been dispatched yet, and an agent can run it
ReadyAt(m, j) ==
    /\ tasks[m].dependencies \subseteq calls[j].done
    /\ \A i \in 1..(j - 1) : calls[i].task_id # tasks[m].task_id
    /\ HasAgent(m)

\* task k is dispatched before task m: higher priority first, insertion order
\* among equal priorities
DispatchBefore(k, m) ==
    \/ tasks[k].priority > tasks[m].priority
    \/ tasks[k].priority = tasks[m].priority /\ k <= m

\* C9: among the tasks that are ready at the same time the task with the
\* highest priority is dispatched first, equal priorities in insertion order.
C9_HighestPriorityReadyFirst ==
    Installed =>
        \A j \in 1..Len(calls) :
            ReadyAt(TaskAt(calls[j].task_id), j) =>
                \A m \in 1..Len(tasks) :
                    ReadyAt(m, j) => DispatchBefore(TaskAt(calls[j].task_id), m)

\* the first registered agent that declares the task's type and accepts its
\* payload, None when there is none: a function of the task and the registry
FirstValid(task) ==
    LET V == {i \in 1..Len(registry) :
                 /\ task.task_type # NoTaskType
                 /\ task.task_type \in registry[i].capabilities
                 /\ validate_input(registry[i], task_payload(task))}
    IN  IF V = {} THEN None ELSE CHOOSE i \in V : \A j \in V : i <= j

\* C11: dispatch is deterministic: the log of execute_task invocations of every
\* run is a prefix of one sequence fixed by the task sequence and the registry
\* (the j-th invocation is for the j-th task, on the first valid agent for it),
\* so two runs over the same inputs select the same agents in the same order.
C11_DispatchFixedByInputs ==
    \A j \in 1..Len(calls) :
        /\ j <= Len(tasks)
        /\ calls[j].task_id = tasks[j].task_id
        /\ calls[j].agent = FirstValid(tasks[j])

\* two tasks were dispatched with two registered agents to choose from
C11_Witness ==
    /\ Len(calls) = 2
    /\ Len(registry) = 2
    /\ registry[1] # registry[2]

\* task k lies on a cycle of the dependency relation
OnCycle(k) == DependsOn(k, k)

HasCycle == \E k \in 1..Len(tasks) : OnCycle(k)

\* C12: the plan is validated before any dispatch: an acyclic task sequence is
\* accepted, a cyclic one is rejected with an error naming a task on the cycle
\* before any task of it is dispatched.
C12_CyclicPlanRejected ==
    Installed =>
        /\ (HasCycle /\ pc # "start") =>
              /\ error.kind = "cyclic_dependency"
              /\ error.task_id \in {tasks[k].task_id : k \in {c \in 1..Len(tasks) : OnCycle(c)}}
              /\ calls = <<>>
        /\ ~HasCycle => error.kind # "cyclic_dependency"

\* the tasks the outcome of the plan carries as failed or cancelled
Carried == IF SomeTaskFailed THEN {error.task_id} ELSE {}

\* C13: execution ends when no task is pending; the final status is Succeeded
\* exactly when every task succeeded, otherwise the outcome carries the ids of
\* all the tasks that failed or were cancelled.
C13_FinalStatusCarriesFailedTasks ==
    (Installed /\ Ended) =>
        /\ pc = "returned" <=> (\A k \in 1..Len(tasks) : tasks[k].task_id \in DOMAIN results)
        /\ \A k \in 1..Len(tasks) :
              tasks[k].task_id \in DOMAIN results \/ tasks[k].task_id \in Carried

\* "concurrency" of agent_config_template: the default and smallest limit an
\* agent declares; every positive global maximum is at least as large
concurrency == 1

\* the number of dispatches begun: the tasks before idx, and the task at idx
\* once it is handed to an agent
Begun ==
    IF pc = "dispatch" \/ (pc = "raised" /\ error.kind \in {"agent_error", "output_validation"})
    THEN idx
    ELSE idx - 1

\* invocations begun and not finished, in all and on agent i
InFlightTotal == Begun - Len(calls)

InFlightOn(i) ==
    Cardinality({k \in 1..Begun : select_agent_for_task(registry, tasks[k]) = i})
        - Cardinality({j \in 1..Len(calls) : calls[j].agent = i})

\* C14: in every reachable state the in-flight execute_task invocations on any
\* one agent do not exceed the agent's concurrency limit (a positive integer,
\* default 1), and their total does not exceed the global maximum: at most one
\* invocation is in flight at any time.
C14_InFlightWithinLimits ==
    /\ \A i \in 1..Len(registry) : InFlightOn(i) <= concurrency
    /\ InFlightTotal <= concurrency

\* the second task is in flight on the agent that has finished the first
C14_Witness ==
    /\ pc = "dispatch"
    /\ Len(calls) = 1
    /\ calls[1].agent = agent
    /\ InFlightOn(agent) = 1

(***************************************************************************)
(* Python values, for the agents that read what a payload holds.  A value  *)
(* carries the name of its type and its content: the characters of a str,  *)
(* the items of a list, the key-value mapping (val) of a dict.             *)
(***************************************************************************)
MaxDocs == 2

PyNone == [py |-> "NoneType"]

PyStr(s) == [py |-> "str", chars |-> s]

PyInt(n) == [py |-> "int", int |-> n]

PyBool(b) == [py |-> "bool", bool |-> b]

PyList(items) == [py |-> "list", items |-> items]

PyDict(mapping) == [py |-> "dict", val |-> mapping]

\* d.get(key, default) of a dict d
dict_get(d, key, default) ==
    IF key \in DOMAIN d.val THEN d.val[key] ELSE default

\* the JSON type jsonschema sees in a Python value
JsonTypeOf(v) ==
    CASE v.py = "NoneType" -> "null"
      [] v.py = "str"      -> "string"
      [] v.py = "int"      -> "integer"
      [] v.py = "bool"     -> "boolean"
      [] v.py = "list"     -> "array"
      [] v.py = "dict"     -> "object"

\* the instance jsonschema.validate is given for a Python value
Instance(v) ==
    IF v.py = "dict"
    THEN Obj([k \in DOMAIN v.val |-> JsonTypeOf(v.val[k])])
    ELSE [jtype |-> JsonTypeOf(v), fields |-> EmptyDict]

\* task.get("payload", {})
payload_of(task) == dict_get(task, "payload", PyDict(EmptyDict))

\* sep.join(strings)
RECURSIVE join(_, _)
join(sep, strings) ==
    IF strings = <<>> THEN ""
    ELSE IF Len(strings) = 1 THEN strings[1]
    ELSE strings[1] \o sep \o join(sep, Tail(strings))

\* s[:n]
Prefix(s, n) == IF Len(s) > n THEN SubSeq(s, 1, n) ELSE s

Returned(value) == [kind |-> "return", value |-> value, error |-> ""]

Raised(exception) == [kind |-> "raise", value |-> PyNone, error |-> exception]

(***************************************************************************)
(* SummarizerAgent                                                         *)
(***************************************************************************)
\* combined[:800] + "..." when the combined text is longer than 800
SummaryLimit == 800

HighlightLimit == 200

MaxHighlights == 3

\* the body of SummarizerAgent.execute_task after the validation
summarize(payload) ==
    LET documents == dict_get(payload, "documents", PyList(<<>>)).items
        text(d) == dict_get(d, "text", PyStr(""))
        combined == join("\n\n", [i \in 1..Len(documents) |-> text(documents[i]).chars])
        summary == IF Len(combined) > SummaryLimit
                   THEN Prefix(combined, SummaryLimit) \o "..."
                   ELSE combined
        highlights == [i \in 1..Len(documents) |->
                          PyStr(Prefix(text(documents[i]).chars, HighlightLimit))]
        sources == [i \in 1..Len(documents) |->
                       PyDict([k \in {"id", "title"} |-> dict_get(documents[i], k, PyNone)])]
    IN  IF \E i \in 1..Len(documents) : documents[i].py # "dict"
        THEN Raised("AttributeError")    \* d.get of a value that is no dict
        ELSE IF \E i \in 1..Len(documents) : text(documents[i]).py # "str"
        THEN Raised("TypeError")         \* str.join of an item that is no str
        ELSE Returned(PyDict(
                 [k \in {"summary", "highlights", "sources"} |->
                     CASE k = "summary"    -> PyStr(summary)
                       [] k = "highlights" ->
                              PyList(SubSeq(highlights, 1,
                                  IF Len(highlights) > MaxHighlights
                                  THEN MaxHighlights ELSE Len(highlights)))
                       [] k = "sources"    -> PyList(sources)]))

SummarizerAgent_execute_task_NoValidation(a, task) == summarize(payload_of(task))

SummarizerAgent_execute_task(a, task) ==
    IF ~validate_input(a, Instance(payload_of(task)))
    THEN Raised("ValueError")
    ELSE summarize(payload_of(task))

(***************************************************************************)
(* ResearchAgent                                                           *)
(***************************************************************************)
\* f"doc-{i}" for the 0-based position i of enumerate
doc_name(i) == PyStr("doc-" \o ToString(i))

normalized_TitleIgnoresId(i, d) ==
    PyDict([k \in {"id", "title", "text", "source"} |->
        CASE k = "id"     -> dict_get(d, "id", doc_name(i))
          [] k = "title"  -> dict_get(d, "title", doc_name(i))
          [] k = "text"   -> dict_get(d, "text", PyStr(""))
          [] k = "source" -> dict_get(d, "source", PyNone)])

\* the dict appended to normalized for the document d at position i
normalized(i, d) ==
    PyDict([k \in {"id", "title", "text", "source"} |->
        CASE k = "id"     -> dict_get(d, "id", doc_name(i))
          [] k = "title"  -> dict_get(d, "title", dict_get(d, "id", doc_name(i)))
          [] k = "text"   -> dict_get(d, "text", PyStr(""))
          [] k = "source" -> dict_get(d, "source", PyNone)])

\* the branch of mode "documents"
provided(payload) ==
    LET docs == dict_get(payload, "documents", PyList(<<>>)).items
    IN  IF \E i \in 1..Len(docs) : docs[i].py # "dict"
        THEN Raised("AttributeError")    \* d.get of a value that is no dict
        ELSE Returned(PyDict(
                 [k \in {"documents", "metadata"} |->
                     CASE k = "documents" ->
                              PyList([i \in 1..Len(docs) |-> normalized(i - 1, docs[i])])
                       [] k = "metadata"  ->
                              PyDict([m \in {"retrieval_mode"} |-> PyStr("provided")])]))

\* the simulated retrieval of every other mode; query is a str here
simulated(payload) ==
    LET query == dict_get(payload, "query", PyStr(""))
        doc == [k \in {"id", "title", "text", "source"} |->
                  CASE k = "id"     -> PyStr("sim-1")
                    [] k = "title"  -> PyStr("Result for: " \o query.chars)
                    [] k = "text"   -> PyStr("Simulated content for query '" \o query.chars \o "'")
                    [] k = "source" -> PyStr("simulator")]
    IN  Returned(PyDict(
            [k \in {"documents", "metadata"} |->
                CASE k = "documents" -> PyList(<<PyDict(doc)>>)
                  [] k = "metadata"  -> PyDict([m \in {"query"} |-> query])]))

ResearchAgent_execute_task(a, task) ==
    IF ~validate_input(a, Instance(payload_of(task)))
    THEN Raised("ValueError")
    ELSE IF /\ dict_get(payload_of(task), "mode", PyNone).py = "str"
            /\ dict_get(payload_of(task), "mode", PyNone).chars = "documents"
         THEN provided(payload_of(task))
         ELSE simulated(payload_of(task))

\* agent.execute_task(task) on the class of the agent
execute_task(a, task) ==
    IF a.class = "SummarizerAgent"
    THEN SummarizerAgent_execute_task(a, task)
    ELSE ResearchAgent_execute_task(a, task)

(***************************************************************************)
(* AgentSpec: a caller hands one task to an agent's execute_task, as       *)
(* dispatch_task and the tests do; the documents a ResearchAgent returned  *)
(* are then handed to a SummarizerAgent.                                   *)
(***************************************************************************)
\* input_schema and output_schema of the research configuration of the tests
ResearchInputSchema ==
    ObjectSchema({"mode"},
                 [k \in {"mode", "documents"} |-> IF k = "mode" THEN "string" ELSE "array"])

ResearchOutputSchema == ObjectSchema({"documents"}, [k \in {"documents"} |-> "array"])

SummarizerAgents ==
    {[class |-> "SummarizerAgent"]
        @@ Agent({"summarize_text"}, in, SummarizerOutputSchema, 50, 2) :
        in \in {NoSchema, SummarizerInputSchema}}

ResearchAgents ==
    {[class |-> "ResearchAgent"]
        @@ Agent({"retrieve_documents"}, in, ResearchOutputSchema, 50, 2) :
        in \in {NoSchema, ResearchInputSchema}}

\* the values a document holds under each key
DocValues(k) ==
    CASE k = "id"     -> {PyStr("d1")}
      [] k = "title"  -> {PyStr("Doc 1")}
      [] k = "text"   -> {PyStr("This is the content of document 1."), PyNone}
      [] k = "source" -> {PyStr("web")}

DocKeys == {"id", "title", "text", "source"}

\* an item of a documents list: a dict over some of the keys, or no dict
Docs ==
    {PyInt(1)} \cup
    {PyDict(m) : m \in UNION {{f \in [K -> UNION {DocValues(k) : k \in DocKeys}] :
                                  \A k \in K : f[k] \in DocValues(k)} :
                              K \in SUBSET DocKeys}}

DocLists == {PyList(items) : items \in UNION {[1..n -> Docs] : n \in 0..MaxDocs}}

SummarizerPayloads ==
    {PyDict(EmptyDict)} \cup {PyDict([documents |-> l]) : l \in DocLists}

ResearchPayloads ==
    {PyDict(EmptyDict), PyDict([documents |-> PyList(<<>>)]),
     PyDict([mode |-> PyInt(1)]),
     PyDict([mode |-> PyStr("query")]),
     PyDict([mode |-> PyStr("query"), query |-> PyStr("agents")]),
     PyDict([mode |-> PyStr("documents")])}
    \cup {PyDict([mode |-> PyStr("documents"), documents |-> l]) : l \in DocLists}

\* a task dict, with and without the key "payload"
TaskDict(task_id, task_type, payload) ==
    PyDict([task_id |-> PyStr(task_id), task_type |-> PyStr(task_type), payload |-> payload])

BareTaskDict(task_id, task_type) ==
    PyDict([task_id |-> PyStr(task_id), task_type |-> PyStr(task_type)])

SummarizerTasks ==
    {BareTaskDict("t1", "summarize_text")}
    \cup {TaskDict("t1", "summarize_text", p) : p \in SummarizerPayloads}

ResearchTasks ==
    {BareTaskDict("t-docs", "retrieve_documents")}
    \cup {TaskDict("t-docs", "retrieve_documents", p) : p \in ResearchPayloads}

AgentInit ==
    /\ \/ /\ registry \in {<<s>> : s \in SummarizerAgents}
          /\ tasks \in {<<t>> : t \in SummarizerTasks}
       \/ /\ registry \in {<<r, s>> : r \in ResearchAgents, s \in SummarizerAgents}
          /\ tasks \in {<<t>> : t \in ResearchTasks}
    /\ jsonschema_ok \in BOOLEAN
    /\ pc = "call"
    /\ idx = 1
    /\ agent = 1
    /\ results = <<>>
    /\ calls = <<>>
    /\ error = NoError

\* what the caller passes to execute_task, and what came of the call
Execution ==
    [agent |-> agent, arg |-> tasks[idx],
     outcome |-> execute_task(registry[agent], tasks[idx])]

\* res = agent.execute_task(task) returns
ExecuteReturns ==
    /\ pc = "call"
    /\ execute_task(registry[agent], tasks[idx]).kind = "return"
    /\ results' = (tasks[idx].val["task_id"].chars
                      :> execute_task(registry[agent], tasks[idx]).value) @@ results
    /\ calls' = Append(calls, Execution)
    /\ pc' = "returned"
    /\ UNCHANGED <<registry, tasks, jsonschema_ok, idx, agent, error>>

\* agent.execute_task(task) raises
ExecuteRaises ==
    /\ pc = "call"
    /\ execute_task(registry[agent], tasks[idx]).kind = "raise"
    /\ error' = [kind |-> execute_task(registry[agent], tasks[idx]).error,
                 task_id |-> tasks[idx].val["task_id"].chars]
    /\ calls' = Append(calls, Execution)
    /\ pc' = "raised"
    /\ UNCHANGED <<registry, tasks, jsonschema_ok, idx, agent, results>>

\* sum_task = {..., "payload": {"documents": out["documents"]}} for the summarizer
Summarize ==
    /\ pc = "returned"
    /\ idx = 1
    /\ registry[agent].class = "ResearchAgent"
    /\ tasks' = Append(tasks,
                    TaskDict("t-sum", "summarize_text",
                        PyDict([documents |->
                                   results[tasks[idx].val["task_id"].chars].val["documents"]])))
    /\ idx' = 2
    /\ agent' = 2
    /\ pc' = "call"
    /\ UNCHANGED <<registry, jsonschema_ok, results, calls, error>>

AgentNext == ExecuteReturns \/ ExecuteRaises \/ Summarize

AgentSpec == AgentInit /\ [][AgentNext]_vars

(***************************************************************************)
(* Properties of the agents' execute_task.                                 *)
(***************************************************************************)
ClassOf(j) == registry[calls[j].agent].class

\* validate_input of the agent of the j-th call accepts the payload it was given
Accepted(j) ==
    validate_input(registry[calls[j].agent], Instance(payload_of(calls[j].arg)))

\* the j-th call is in mode "documents"
ModeDocuments(j) ==
    /\ dict_get(payload_of(calls[j].arg), "mode", PyNone).py = "str"
    /\ dict_get(payload_of(calls[j].arg), "mode", PyNone).chars = "documents"

\* C15: agents do not mutate the plan: every execute_task call is handed only
\* the payload of the task, and the call leaves the task dicts, their payloads
\* and the documents in them as they were.
C15_AgentsReceiveOnlyPayload ==
    [][calls' # calls =>
          /\ calls'[Len(calls')].arg = payload_of(tasks[idx])
          /\ tasks' = tasks]_vars

\* C16: a SummarizerAgent whose input schema requires 'documents' to be an array
\* executes every payload its validate_input accepts: the call returns a dict
\* with 'summary' (a str), 'highlights' and 'sources'.
C16_SummarizerExecutesAccepted ==
    \A j \in 1..Len(calls) :
        (/\ ClassOf(j) = "SummarizerAgent"
         /\ registry[calls[j].agent].input_schema = SummarizerInputSchema
         /\ Accepted(j))
        => /\ calls[j].outcome.kind = "return"
           /\ {"summary", "highlights", "sources"} \subseteq DOMAIN calls[j].outcome.value.val
           /\ calls[j].outcome.value.val["summary"].py = "str"

\* C17: for every payload of mode 'documents' a ResearchAgent accepts, the call
\* returns a dict whose 'documents' is a list, and the summarize_text task over
\* that list is accepted and executed by the SummarizerAgent without raising,
\* returning a result with 'summary'.
C17_ResearchComposesWithSummarizer ==
    Installed =>
        \A j \in 1..Len(calls) :
            (ClassOf(j) = "ResearchAgent" /\ ModeDocuments(j) /\ Accepted(j))
            => /\ calls[j].outcome.kind = "return"
               /\ calls[j].outcome.value.val["documents"].py = "list"
               /\ j + 1 <= Len(calls) =>
                     /\ calls[j + 1].arg.val["payload"].val["documents"]
                            = calls[j].outcome.value.val["documents"]
                     /\ Accepted(j + 1)
                     /\ calls[j + 1].outcome.kind = "return"
                     /\ "summary" \in DOMAIN calls[j + 1].outcome.value.val

\* the documents handed to, and returned by, the j-th call
ProvidedDocs(j) == dict_get(payload_of(calls[j].arg), "documents", PyList(<<>>)).items

ReturnedDocs(j) == calls[j].outcome.value.val["documents"].items

\* C18: in mode 'documents' a ResearchAgent.execute_task that returns gives one
\* document per provided document, in order, each with exactly the keys id,
\* title, text and source: id is the provided id, else 'doc-<index>' (from 0);
\* title is the provided title, else the provided id, else 'doc-<index>'; text
\* is the provided text, else ''; metadata records retrieval_mode 'provided'.
C18_ProvidedDocumentsNormalized ==
    \A j \in 1..Len(calls) :
        (ClassOf(j) = "ResearchAgent" /\ ModeDocuments(j) /\ calls[j].outcome.kind = "return")
        => /\ Len(ReturnedDocs(j)) = Len(ProvidedDocs(j))
           /\ calls[j].outcome.value.val["metadata"].val["retrieval_mode"] = PyStr("provided")
           /\ \A i \in 1..Len(ProvidedDocs(j)) :
                 LET given == ProvidedDocs(j)[i].val
                     out == ReturnedDocs(j)[i].val
                     name == PyStr("doc-" \o ToString(i - 1))
                 IN  /\ DOMAIN out = {"id", "title", "text", "source"}
                     /\ out["id"] = IF "id" \in DOMAIN given THEN given["id"] ELSE name
                     /\ out["title"] = IF "title" \in DOMAIN given THEN given["title"]
                                       ELSE IF "id" \in DOMAIN given THEN given["id"]
                                       ELSE name
                     /\ out["text"] = IF "text" \in DOMAIN given THEN given["text"]
                                      ELSE PyStr("")
                     /\ "source" \in DOMAIN given => out["source"] = given["source"]

\* a ResearchAgent returned two documents: one given with an id and no title,
\* one given with neither
C18_Witness ==
    \E j \in 1..Len(calls) :
        /\ ClassOf(j) = "ResearchAgent"
        /\ ModeDocuments(j)
        /\ calls[j].outcome.kind = "return"
        /\ Len(ProvidedDocs(j)) = 2
        /\ \E i \in 1..2 : DOMAIN ProvidedDocs(j)[i].val \cap {"id", "title"} = {"id"}
        /\ \E i \in 1..2 : DOMAIN ProvidedDocs(j)[i].val \cap {"id", "title"} = {}

\* C19: execute_task validates the payload first (a task without 'payload' is
\* validated as the empty payload): whenever validate_input rejects it the call
\* raises ValueError and returns no result.
C19_RejectedPayloadRaisesValueError ==
    \A j \in 1..Len(calls) :
        ~Accepted(j)
        => /\ calls[j].outcome = Raised("ValueError")
           /\ calls[j].arg.val["task_id"].chars \notin DOMAIN results
           /\ j = Len(calls)
           /\ pc = "raised"
           /\ error.kind = "ValueError"

\* a task without the key 'payload' was rejected by an agent that requires keys
C19_Witness ==
    \E j \in 1..Len(calls) :
        /\ "payload" \notin DOMAIN calls[j].arg.val
        /\ jsonschema_ok
        /\ ~Accepted(j)
        /\ error.kind = "ValueError"

(***************************************************************************)
(* ConstructorSpec: BaseAgent.__init__ over the keyword arguments a caller *)
(* passes and the agent_config_dict it passes.                             *)
(***************************************************************************)
\* bool(v)
PyTruthy(v) ==
    CASE v.py = "NoneType" -> FALSE
      [] v.py = "bool"     -> v.bool
      [] v.py = "int"      -> v.int # 0
      [] v.py = "str"      -> v.chars # ""
      [] v.py = "list"     -> v.items # <<>>
      [] v.py = "dict"     -> DOMAIN v.val # {}

\* a or b
py_or(a, b) == IF PyTruthy(a) THEN a ELSE b

\* the value a parameter is bound to: the keyword argument, else its default
Parameter(kwargs, name, default) ==
    IF name \in DOMAIN kwargs THEN kwargs[name] ELSE default

\* the attributes __init__ resolves from an argument and the configuration
BaseAgent_init(kwargs, cfg) ==
    LET agent_tools  == Parameter(kwargs, "agent_tools", PyNone)
        agent_role   == Parameter(kwargs, "agent_role", PyNone)
        interactions == Parameter(kwargs, "interactions", PyNone)
        rag_enabled  == Parameter(kwargs, "rag_enabled", PyBool(FALSE))
        vector_store == Parameter(kwargs, "vector_store", PyNone)
        rag          == dict_get(cfg, "rag", PyDict(EmptyDict))
    IN  [agent_tools  |-> IF agent_tools.py # "NoneType" THEN agent_tools
                          ELSE dict_get(cfg, "tools", PyList(<<>>)),
         agent_role   |-> IF agent_role.py # "NoneType" THEN agent_role
                          ELSE py_or(dict_get(cfg, "role", PyNone),
                                     dict_get(cfg, "agent_role", PyNone)),
         interactions |-> IF interactions.py # "NoneType" THEN interactions
                          ELSE dict_get(cfg, "interactions", PyNone),
         rag_enabled  |-> IF rag_enabled.py # "NoneType" /\ PyTruthy(rag_enabled)
                          THEN PyBool(TRUE)
                          ELSE PyBool(PyTruthy(
                                   dict_get(rag, "enabled",
                                       dict_get(cfg, "rag_enabled", PyBool(FALSE))))),
         vector_store |-> IF vector_store.py # "NoneType" THEN vector_store
                          ELSE py_or(dict_get(cfg, "vector_store", PyNone),
                                     dict_get(rag, "vector_store", PyNone))]

\* every mapping of some of the keys of values, values[k] the values of key k
RECURSIVE Mappings(_)
Mappings(values) ==
    IF DOMAIN values = {} THEN {EmptyDict}
    ELSE LET k == CHOOSE key \in DOMAIN values : TRUE
             rest == Mappings([key \in DOMAIN values \ {k} |-> values[key]])
         IN  rest \cup {(k :> v) @@ m : v \in values[k], m \in rest}

\* the keyword arguments a caller passes explicitly
KeywordArguments ==
    Mappings([agent_tools  |-> {PyList(<<>>), PyList(<<PyStr("search")>>)},
              agent_role   |-> {PyStr(""), PyStr("lead")},
              interactions |-> {PyStr("peer")},
              rag_enabled  |-> {PyBool(TRUE), PyBool(FALSE)},
              vector_store |-> {PyStr("faiss")}])

Configurations ==
    {PyDict(m) : m \in
        Mappings([tools        |-> {PyList(<<PyStr("fetch")>>)},
                  role         |-> {PyStr(""), PyStr("researcher")},
                  agent_role   |-> {PyStr("helper")},
                  interactions |-> {PyStr("team")},
                  rag          |-> {PyDict([enabled |-> PyBool(TRUE)]),
                                    PyDict([enabled |-> PyBool(FALSE)]),
                                    PyDict([vector_store |-> PyStr("chroma")])},
                  rag_enabled  |-> {PyBool(TRUE)},
                  vector_store |-> {PyStr("pinecone")}])}

ConstructorInit ==
    /\ calls \in {<<[kwargs |-> kw, config |-> cfg]>> :
                     kw \in KeywordArguments, cfg \in Configurations}
    /\ registry = <<>>
    /\ tasks = <<>>
    /\ jsonschema_ok = TRUE
    /\ pc = "new"
    /\ idx = 1
    /\ agent = None
    /\ results = <<>>
    /\ error = NoError

\* BaseAgent.__init__ runs
Construct ==
    /\ pc = "new"
    /\ registry' = <<BaseAgent_init(calls[1].kwargs, calls[1].config)>>
    /\ pc' = "constructed"
    /\ UNCHANGED <<tasks, jsonschema_ok, idx, agent, results, calls, error>>

ConstructorNext == Construct

ConstructorSpec == ConstructorInit /\ [][ConstructorNext]_vars

\* C20: in BaseAgent.__init__ an explicitly passed argument is preferred over
\* the configuration for agent_tools, agent_role, interactions, rag_enabled and
\* vector_store: the attribute is the argument whenever the argument was given
\* (an explicit rag_enabled=False yields False even when the config enables RAG).
C20_ExplicitArgumentPreferred ==
    pc = "constructed" =>
        \A name \in DOMAIN calls[1].kwargs : registry[1][name] = calls[1].kwargs[name]

(***************************************************************************)
(* plan_and_execute as the code runs it.                                   *)
(***************************************************************************)
\* the values an execute_task of the model returns
ReturnedValues == {o.value : o \in {r \in Outcomes : r.kind = "return"}}

\* C21: plan_and_execute invokes execute_task at most once per task and in the
\* order of the sequence; results holds an entry only for a task whose dispatch
\* returned a value that passed the output validation; the mapping is returned
\* only if every task was dispatched successfully; after the first task that
\* fails selection or dispatch no later task is dispatched and no mapping is
\* returned.
C21_SequentialFailFast ==
    /\ Len(calls) <= Len(tasks)
    /\ \A j \in 1..Len(calls) : calls[j].task_id = tasks[j].task_id
    /\ \A id \in DOMAIN results :
          \E j \in 1..Len(calls) :
              /\ calls[j].task_id = id
              /\ results[id] \in ReturnedValues
              /\ ~OutputRejected(registry[calls[j].agent], results[id])
    /\ pc = "returned" =>
          /\ error = NoError
          /\ Len(calls) = Len(tasks)
          /\ \A k \in 1..Len(tasks) : tasks[k].task_id \in DOMAIN results
    /\ error # NoError =>
          /\ pc = "raised"
          /\ \A j \in 1..Len(calls) :
                calls[j].task_id \notin DOMAIN results => j = Len(calls)
          /\ \A k \in 1..Len(tasks) :
                k > TaskAt(error.task_id) =>
                    /\ tasks[k].task_id \notin DOMAIN results
                    /\ \A j \in 1..Len(calls) : calls[j].task_id # tasks[k].task_id

\* the dispatch of the first of several tasks failed: the call has ended with
\* the exception and the later tasks were never dispatched
C21_Witness ==
    /\ pc = "raised"
    /\ Len(tasks) >= 2
    /\ Len(calls) = 1
    /\ error.task_id = tasks[1].task_id
    /\ error.kind \in {"agent_error", "output_validation"}
    /\ jsonschema_ok

====
